---- MODULE Spec2Model ----
(***************************************************************************)
(* Model of the callbot browser client.                                    *)
(*                                                                         *)
(*  - src/frontend/src/App.jsx : the React component App, its start() and  *)
(*    stop() handlers and the WebSocket / worklet-port / timer callbacks   *)
(*    that start() installs (the streaming session controller).            *)
(*  - src/unnamed/part_000     : PCMWorkletProcessor, the audio worklet    *)
(*    (RMS gate with hangover, box-filter downsampler, Int16LE encoder).   *)
(*                                                                         *)
(* Spec     : the mounted App component driven by its two buttons and by   *)
(*            the browser's events.  Every call of start() is a "session"  *)
(*            s: it owns the closure variables stream, ws, ping and the    *)
(*            value of `error` captured by the render that created the     *)
(*            start closure.  The refs (wsRef, streamRef, ...) are shared  *)
(*            by all sessions, 0 stands for null.                          *)
(* GateSpec : one PCMWorkletProcessor instance fed with blocks.            *)
(*                                                                         *)
(* Strings are sequences of tokens (<<>> is the empty string, which is     *)
(* falsy in JavaScript), so that concatenation is sequence concatenation.  *)
(***************************************************************************)
EXTENDS Integers, Sequences, FiniteSets, TLC

\* ------------------------------------------------------------------ bounds
\* Inputs of one run: a click on Stop, a frame posted by a worklet, a
\* keepalive tick that sends and an inbound message count one each, a click
\* on Start counts two (the click and the answer of the capture device).
MaxInputs == 6

\* Samples of one block.
MaxBlockLen == 4

\* The count of quiet blocks after a loud one saturates here.
QuietCap == 10

\* Calls of start() that fit in one run.
MaxSessions == MaxInputs \div 2

Sessions == 1..MaxSessions

\* ------------------------------------------------------- program constants
TargetRate == 16000     \* sampleRate of the init message and the worklet
DefaultThresh == 15     \* 0.015, in thousandths
DefaultHang == 8
Scale == 1000           \* samples and thresholds are counted in thousandths
CloseFail   == 1006     \* close code of a failed connection
CloseNoCode == 1005     \* close code after close() without a code
CloseNormal == 1000     \* close code of a normal remote closure

SP == " "

WsErrorText == <<"WebSocket error. Is the backend running on ws://localhost:5000?">>

ServerErrorText == <<"Server error while decoding audio">>

MicErrorText == <<"Could not access microphone">>

ClosedText(code) == <<"WebSocket closed (", code, ")">>

InitMsg == <<"init", "pcm", TargetRate>>

PingMsg == <<"ping">>

FinalMsg == <<"final">>

PcmMsg(f) == <<"pcm", f>>

\* ---------------------------------------------------------- inbound inputs
Msg(ty, fin, tx, pa, me) ==
  [type |-> ty, final |-> fin, text |-> tx, partial |-> pa, message |-> me]

\* The messages the remote service (or anything else on the socket) may send:
\* a partial result, final results carrying result.text, only result.partial
\* or neither, 'final' messages with and without text, 'error' messages with
\* and without a message, a JSON value of an unknown type and a payload that
\* JSON.parse rejects.
Inbound ==
  { Msg("result", FALSE, <<>>, <<"ab">>, <<>>),
    Msg("result", TRUE, <<"abc">>, <<>>, <<>>),
    Msg("result", TRUE, <<>>, <<"ab">>, <<>>),
    Msg("result", TRUE, <<>>, <<>>, <<>>),
    Msg("final", FALSE, <<"d">>, <<>>, <<>>),
    Msg("final", FALSE, <<>>, <<>>, <<>>),
    Msg("error", FALSE, <<>>, <<>>, <<"boom">>),
    Msg("error", FALSE, <<>>, <<>>, <<>>),
    Msg("other", FALSE, <<>>, <<>>, <<>>),
    Msg("unparsable", FALSE, <<>>, <<>>, <<>>) }

\* a || b on strings
Or(a, b) == IF a # <<>> THEN a ELSE b

VARIABLES
  recording, partial, finalText, error,          \* useState
  wsRef, streamRef, audioCtxRef, srcRef, workletRef,   \* useRef (0 = null)
  pc,             \* position of each start() call
  graph,          \* position of each ws.onopen call
  capturedError,  \* `error` as seen by the closures of each start() call
  wsState,        \* readyState of each session's WebSocket
  ping,           \* each session's setInterval handle is active
  stream,         \* each session's MediaStream
  ctx,            \* each session's AudioContext
  node,           \* each session's AudioWorkletNode exists
  port,           \* frames posted by each worklet, not yet delivered
  timers,         \* pending setTimeout callbacks of stop()
  sent,           \* what was sent on each session's WebSocket, in order
  closeRequested, \* close() was called on the session's WebSocket
  delivered,      \* history: <<frame, readyState was OPEN>> per delivery
  inbox,          \* history: messages handled since the last start()
  stopRequested,  \* history: stop() was called since the last start()
  nStarted, nFrames, nInputs,
  \* one PCMWorkletProcessor
  inRate, outRate, gateThresh, gateHangTarget, gateHang,
  quietRun,       \* history: quiet blocks since the last loud block, capped
                  \* (-1 while no block was loud)
  lastIn, lastOut \* history: the last block and the frame posted for it

sessVars == <<recording, partial, finalText, error,
              wsRef, streamRef, audioCtxRef, srcRef, workletRef,
              pc, graph, capturedError, wsState, ping, stream, ctx, node,
              port, timers, sent, closeRequested, delivered,
              inbox, stopRequested,
              nStarted, nFrames, nInputs>>

gateVars == <<inRate, outRate, gateThresh, gateHangTarget, gateHang,
              quietRun, lastIn, lastOut>>

vars == <<sessVars, gateVars>>

\* ------------------------------------------------------------ App: state
SessInit ==
  /\ recording = FALSE /\ partial = <<>> /\ finalText = <<>> /\ error = <<>>
  /\ wsRef = 0 /\ streamRef = 0 /\ audioCtxRef = 0 /\ srcRef = 0
  /\ workletRef = 0
  /\ pc = [s \in Sessions |-> "idle"]
  /\ graph = [s \in Sessions |-> "none"]
  /\ capturedError = [s \in Sessions |-> <<>>]
  /\ wsState = [s \in Sessions |-> "none"]
  /\ ping = [s \in Sessions |-> FALSE]
  /\ stream = [s \in Sessions |-> "none"]
  /\ ctx = [s \in Sessions |-> "none"]
  /\ node = [s \in Sessions |-> FALSE]
  /\ port = [s \in Sessions |-> <<>>]
  /\ timers = 0
  /\ sent = [s \in Sessions |-> <<>>]
  /\ closeRequested = [s \in Sessions |-> FALSE]
  /\ delivered = [s \in Sessions |-> <<>>]
  /\ inbox = <<>>
  /\ stopRequested = FALSE
  /\ nStarted = 0 /\ nFrames = 0 /\ nInputs = 0

GateIdle ==
  /\ inRate = TargetRate /\ outRate = TargetRate
  /\ gateThresh = 0 /\ gateHangTarget = 0 /\ gateHang = 0
  /\ quietRun = -1 /\ lastIn = <<>> /\ lastOut = <<>>

Init == SessInit /\ GateIdle

\* ----------------------------------------------------------- App: start()
\* The "Start Mic" button is rendered only while recording is false.
\* start() up to the await of getUserMedia.
ClickStart ==
  /\ ~recording
  /\ nInputs + 2 <= MaxInputs
  /\ nInputs' = nInputs + 2
  /\ LET s == nStarted + 1 IN
       /\ nStarted' = s
       /\ capturedError' = [capturedError EXCEPT ![s] = error]
       /\ pc' = [pc EXCEPT ![s] = "acquiring"]
  /\ error' = <<>>
  /\ partial' = <<>>
  /\ finalText' = <<>>
  /\ inbox' = <<>>
  /\ stopRequested' = FALSE
  /\ UNCHANGED <<recording, wsRef, streamRef, audioCtxRef, srcRef, workletRef,
                 graph, wsState, ping, stream, ctx, node, port, timers, sent,
                 closeRequested, delivered, nFrames>>
  /\ UNCHANGED gateVars

\* getUserMedia resolves: the rest of start() runs (WebSocket and keepalive
\* interval are created, wsRef is overwritten).
AcquireOk(s) ==
  /\ pc[s] = "acquiring"
  /\ pc' = [pc EXCEPT ![s] = "started"]
  /\ stream' = [stream EXCEPT ![s] = "live"]
  /\ streamRef' = s
  /\ wsState' = [wsState EXCEPT ![s] = "connecting"]
  /\ ping' = [ping EXCEPT ![s] = TRUE]
  /\ wsRef' = s
  /\ UNCHANGED <<recording, partial, finalText, error, audioCtxRef, srcRef,
                 workletRef, graph, capturedError, ctx, node, port, timers,
                 sent, closeRequested, delivered, inbox, stopRequested,
                 nStarted, nFrames, nInputs>>
  /\ UNCHANGED gateVars

\* A faulty catch block that has no text for an error without a message.
CatchErrorNoDefault(m) == m

\* catch (e): the value of `error` after setError(e?.message || '...')
CatchError(m) == Or(m, MicErrorText)

\* the error messages getUserMedia may reject with (possibly empty)
AcquireErrors == {<<>>, <<"Permission denied">>}

\* getUserMedia rejects with an error whose message is m.
AcquireFail(s, m) ==
  /\ pc[s] = "acquiring"
  /\ pc' = [pc EXCEPT ![s] = "failed"]
  /\ error' = CatchError(m)
  /\ UNCHANGED <<recording, partial, finalText, wsRef, streamRef, audioCtxRef,
                 srcRef, workletRef, graph, capturedError, wsState, ping,
                 stream, ctx, node, port, timers, sent, closeRequested,
                 delivered, inbox, stopRequested, nStarted, nFrames, nInputs>>
  /\ UNCHANGED gateVars

\* A faulty ws.onopen that sends no negotiation message.
OnOpenSendNothing(log) == log

\* ws.onopen: what the socket has been sent after the init message.
OnOpenSend(log) == Append(log, InitMsg)

\* ws.onopen up to the await of audioWorklet.addModule.
WsOpen(s) ==
  /\ wsState[s] = "connecting"
  /\ wsState' = [wsState EXCEPT ![s] = "open"]
  /\ sent' = [sent EXCEPT ![s] = OnOpenSend(@)]
  /\ ctx' = [ctx EXCEPT ![s] = "running"]
  /\ audioCtxRef' = s
  /\ srcRef' = s
  /\ graph' = [graph EXCEPT ![s] = "loading"]
  /\ UNCHANGED <<recording, partial, finalText, error, wsRef, streamRef,
                 workletRef, pc, capturedError, ping, stream, node, port,
                 timers, closeRequested, delivered, inbox, stopRequested,
                 nStarted, nFrames, nInputs>>
  /\ UNCHANGED gateVars

\* addModule resolves: the rest of ws.onopen.  The assignment to
\* srcRef.current.__filter throws when stop() has nulled srcRef meanwhile,
\* and then setRecording(true) is not reached.
ModuleLoaded(s) ==
  /\ graph[s] = "loading"
  /\ node' = [node EXCEPT ![s] = TRUE]
  /\ workletRef' = s
  /\ IF srcRef = 0
       THEN /\ graph' = [graph EXCEPT ![s] = "threw"]
            /\ UNCHANGED recording
       ELSE /\ graph' = [graph EXCEPT ![s] = "ready"]
            /\ recording' = TRUE
  /\ UNCHANGED <<partial, finalText, error, wsRef, streamRef, audioCtxRef,
                 srcRef, pc, capturedError, wsState, ping, stream, ctx, port,
                 timers, sent, closeRequested, delivered, inbox,
                 stopRequested, nStarted, nFrames, nInputs>>
  /\ UNCHANGED gateVars

\* addModule rejects: ws.onopen ends there.
ModuleFail(s) ==
  /\ graph[s] = "loading"
  /\ graph' = [graph EXCEPT ![s] = "loadFailed"]
  /\ UNCHANGED <<recording, partial, finalText, error, wsRef, streamRef,
                 audioCtxRef, srcRef, workletRef, pc, capturedError, wsState,
                 ping, stream, ctx, node, port, timers, sent, closeRequested,
                 delivered, inbox, stopRequested, nStarted, nFrames, nInputs>>
  /\ UNCHANGED gateVars

\* --------------------------------------------------- App: worklet frames
\* The worklet of session s posts frame f on its port (part_000 line 67).
\* Frames are numbered in the order the worklets produce them.
WorkletPost(s) ==
  /\ node[s]
  /\ ctx[s] = "running"
  /\ nInputs < MaxInputs
  /\ nInputs' = nInputs + 1
  /\ nFrames' = nFrames + 1
  /\ port' = [port EXCEPT ![s] = Append(@, nFrames + 1)]
  /\ UNCHANGED <<recording, partial, finalText, error, wsRef, streamRef,
                 audioCtxRef, srcRef, workletRef, pc, graph, capturedError,
                 wsState, ping, stream, ctx, node, timers, sent,
                 closeRequested, delivered, inbox, stopRequested, nStarted>>
  /\ UNCHANGED gateVars

\* A faulty node.port.onmessage that does not look at the readyState.
ForwardAlways(rs, log, f) == Append(log, PcmMsg(f))

\* node.port.onmessage: what the socket has been sent after frame f arrives
\* while its readyState is rs.
Forward(rs, log, f) == IF rs = "open" THEN Append(log, PcmMsg(f)) ELSE log

PortDeliver(s) ==
  /\ port[s] # <<>>
  /\ LET f == Head(port[s]) IN
       /\ sent' = [sent EXCEPT ![s] = Forward(wsState[s], @, f)]
       /\ delivered' = [delivered EXCEPT
                          ![s] = Append(@, <<f, wsState[s] = "open">>)]
  /\ port' = [port EXCEPT ![s] = Tail(@)]
  /\ UNCHANGED <<recording, partial, finalText, error, wsRef, streamRef,
                 audioCtxRef, srcRef, workletRef, pc, graph, capturedError,
                 wsState, ping, stream, ctx, node, timers, closeRequested,
                 inbox, stopRequested, nStarted, nFrames, nInputs>>
  /\ UNCHANGED gateVars

\* ------------------------------------------------------ App: ws.onmessage
\* A faulty updater that never inserts the separator.
AppendFinalNoSep(prev, text) == prev \o text

\* setFinalText(prev => (prev ? prev + ' ' : '') + text)
AppendFinal(prev, text) == (IF prev # <<>> THEN prev \o <<SP>> ELSE <<>>) \o text

\* A faulty ws.onmessage that reports a payload it cannot use as an error.
ReconcileMalformedIsError(m, p, f, e) ==
  CASE m.type = "result" /\ m.final ->
         [partial |-> <<>>,
          finalText |-> AppendFinal(f, Or(m.text, m.partial)),
          error |-> e]
    [] m.type = "result" /\ ~m.final ->
         [partial |-> m.partial, finalText |-> f, error |-> e]
    [] m.type = "error" ->
         [partial |-> p, finalText |-> f,
          error |-> Or(m.message, ServerErrorText)]
    [] m.type = "final" ->
         [partial |-> <<>>, finalText |-> AppendFinal(f, m.text), error |-> e]
    [] OTHER -> [partial |-> p, finalText |-> f, error |-> ServerErrorText]

\* A faulty ws.onmessage whose error branch also drops the partial text.
ReconcileErrorClears(m, p, f, e) ==
  CASE m.type = "result" /\ m.final ->
         [partial |-> <<>>,
          finalText |-> AppendFinal(f, Or(m.text, m.partial)),
          error |-> e]
    [] m.type = "result" /\ ~m.final ->
         [partial |-> m.partial, finalText |-> f, error |-> e]
    [] m.type = "error" ->
         [partial |-> <<>>, finalText |-> f,
          error |-> Or(m.message, ServerErrorText)]
    [] m.type = "final" ->
         [partial |-> <<>>, finalText |-> AppendFinal(f, m.text), error |-> e]
    [] OTHER -> [partial |-> p, finalText |-> f, error |-> e]

\* ws.onmessage: the values of partial, finalText and error after message m
\* is handled with the values p, f and e.
Reconcile(m, p, f, e) ==
  CASE m.type = "unparsable" -> [partial |-> p, finalText |-> f, error |-> e]
    [] m.type = "result" /\ m.final ->
         [partial |-> <<>>,
          finalText |-> AppendFinal(f, Or(m.text, m.partial)),
          error |-> e]
    [] m.type = "result" /\ ~m.final ->
         [partial |-> m.partial, finalText |-> f, error |-> e]
    [] m.type = "error" ->
         [partial |-> p, finalText |-> f,
          error |-> Or(m.message, ServerErrorText)]
    [] m.type = "final" ->
         [partial |-> <<>>, finalText |-> AppendFinal(f, m.text), error |-> e]
    [] OTHER -> [partial |-> p, finalText |-> f, error |-> e]

\* A message event on the WebSocket of session s (message events are
\* dispatched until the close event, also after close() was called).
OnMessage(s, m) ==
  /\ wsState[s] \in {"open", "closing"}
  /\ nInputs < MaxInputs
  /\ nInputs' = nInputs + 1
  /\ LET r == Reconcile(m, partial, finalText, error) IN
       /\ partial' = r.partial
       /\ finalText' = r.finalText
       /\ error' = r.error
  /\ inbox' = Append(inbox, m)
  /\ UNCHANGED <<recording, wsRef, streamRef, audioCtxRef, srcRef, workletRef,
                 pc, graph, capturedError, wsState, ping, stream, ctx, node,
                 port, timers, sent, closeRequested, delivered, stopRequested,
                 nStarted, nFrames>>
  /\ UNCHANGED gateVars

\* ------------------------------------------------- App: keepalive interval
\* The interval callback: what the socket has been sent after a tick while
\* its readyState is rs.
PingSend(rs, log) == IF rs = "open" THEN Append(log, PingMsg) ELSE log

PingTick(s) ==
  /\ ping[s]
  /\ nInputs < MaxInputs
  /\ sent' = [sent EXCEPT ![s] = PingSend(wsState[s], @)]
  /\ nInputs' = IF wsState[s] = "open" THEN nInputs + 1 ELSE nInputs
  /\ UNCHANGED <<recording, partial, finalText, error, wsRef, streamRef,
                 audioCtxRef, srcRef, workletRef, pc, graph, capturedError,
                 wsState, ping, stream, ctx, node, port, timers,
                 closeRequested, delivered, inbox, stopRequested, nStarted,
                 nFrames>>
  /\ UNCHANGED gateVars

\* ------------------------------------------- App: ws.onerror / ws.onclose
\* A faulty ws.onclose that clears `error` when the close was asked for.
OnCloseErrorClearsOnStop(captured, cur, code) ==
  IF code = CloseNoCode THEN <<>>
  ELSE IF captured = <<>> THEN ClosedText(code) ELSE cur

\* ws.onclose: the value of `error` after a close event with this code, when
\* the closure sees captured as `error` and the state holds cur.
OnCloseError(captured, cur, code) ==
  IF captured = <<>> THEN ClosedText(code) ELSE cur

\* The connection of session s ends.  A failed connection (withError) gets
\* an error event and then a close event with code 1006 in one task; a
\* connection that never opened can only fail.
WsClosed(s, withError) ==
  /\ wsState[s] \in {"connecting", "open", "closing"}
  /\ wsState[s] = "connecting" => withError
  /\ LET code == IF withError THEN CloseFail
                 ELSE IF closeRequested[s] THEN CloseNoCode ELSE CloseNormal
         cur  == IF withError THEN WsErrorText ELSE error
     IN error' = OnCloseError(capturedError[s], cur, code)
  /\ wsState' = [wsState EXCEPT ![s] = "closed"]
  /\ ping' = [ping EXCEPT ![s] = FALSE]
  /\ recording' = FALSE
  /\ UNCHANGED <<partial, finalText, wsRef, streamRef, audioCtxRef, srcRef,
                 workletRef, pc, graph, capturedError, stream, ctx, node,
                 port, timers, sent, closeRequested, delivered, inbox,
                 stopRequested, nStarted, nFrames, nInputs>>
  /\ UNCHANGED gateVars

\* ------------------------------------------------------------ App: stop()
\* The "Stop" button is rendered only while recording is true.
\* wsRef.current.readyState === OPEN && wsRef.current.send('final')
StopSend(rs, log) == IF rs = "open" THEN Append(log, FinalMsg) ELSE log

ClickStop ==
  /\ recording
  /\ nInputs < MaxInputs
  /\ nInputs' = nInputs + 1
  /\ ctx' = IF audioCtxRef # 0 /\ ctx[audioCtxRef] # "closed"
              THEN [ctx EXCEPT ![audioCtxRef] = "closed"] ELSE ctx
  /\ workletRef' = 0
  /\ srcRef' = 0
  /\ audioCtxRef' = 0
  /\ sent' = IF wsRef # 0
               THEN [sent EXCEPT ![wsRef] = StopSend(wsState[wsRef], @)]
               ELSE sent
  /\ timers' = timers + 1
  /\ stream' = IF streamRef # 0
                 THEN [stream EXCEPT ![streamRef] = "stopped"] ELSE stream
  /\ recording' = FALSE
  /\ stopRequested' = TRUE
  /\ UNCHANGED <<partial, finalText, error, wsRef, streamRef, pc, graph,
                 capturedError, wsState, ping, node, port, closeRequested,
                 delivered, inbox, nStarted, nFrames>>
  /\ UNCHANGED gateVars

\* WebSocket.close(): the readyState after close() is called in state rs.
CloseCall(rs) == IF rs \in {"connecting", "open"} THEN "closing" ELSE rs

\* The setTimeout callback of stop(): wsRef.current && wsRef.current.close()
CloseTimerFire ==
  /\ timers > 0
  /\ timers' = timers - 1
  /\ IF wsRef # 0
       THEN /\ wsState' = [wsState EXCEPT ![wsRef] = CloseCall(@)]
            /\ closeRequested' = [closeRequested EXCEPT ![wsRef] = TRUE]
       ELSE UNCHANGED <<wsState, closeRequested>>
  /\ UNCHANGED <<recording, partial, finalText, error, wsRef, streamRef,
                 audioCtxRef, srcRef, workletRef, pc, graph, capturedError,
                 ping, stream, ctx, node, port, sent, delivered, inbox,
                 stopRequested, nStarted, nFrames, nInputs>>
  /\ UNCHANGED gateVars

\* ------------------------------------------------------------------- Spec
Next ==
  \/ ClickStart
  \/ \E s \in Sessions : AcquireOk(s)
  \/ \E s \in Sessions, m \in AcquireErrors : AcquireFail(s, m)
  \/ \E s \in Sessions : WsOpen(s)
  \/ \E s \in Sessions : ModuleLoaded(s)
  \/ \E s \in Sessions : ModuleFail(s)
  \/ \E s \in Sessions : WorkletPost(s)
  \/ \E s \in Sessions : PortDeliver(s)
  \/ \E s \in Sessions, m \in Inbound : OnMessage(s, m)
  \/ \E s \in Sessions : PingTick(s)
  \/ \E s \in Sessions, e \in BOOLEAN : WsClosed(s, e)
  \/ ClickStop
  \/ CloseTimerFire

Spec == Init /\ [][Next]_vars

\* ==================================================== PCMWorkletProcessor
\* Samples are exact numbers counted in thousandths (20 is 0.02); a resampled
\* sample is a fraction <<n, d>> standing for n / (d * Scale).  The rates are
\* chosen so that inRate / outRate is a binary fraction: the floating-point
\* products and quotients of the code are then exact, and Math.round is
\* Round below.
SampleVals == {-1500, 0, 20}

InRates == {8000, 16000, 24000, 48000}

\* processorOptions: a rate of 0 is an absent targetSampleRate; hasThresh and
\* hasHang tell whether gateThresh is a number and gateHang an integer.
Opts(r, ht, t, hh, h) ==
  [targetSampleRate |-> r, hasThresh |-> ht, gateThresh |-> t,
   hasHang |-> hh, gateHang |-> h]

GateOpts ==
  { Opts(0, FALSE, 0, FALSE, 0), Opts(TargetRate, TRUE, DefaultThresh, TRUE, DefaultHang) }
  \cup { Opts(TargetRate, TRUE, DefaultThresh, TRUE, h) : h \in -1..2 }

\* A loud block of 300 samples whose windows of three samples have several
\* different means.
ExampleBlock ==
  LET cycle == <<20, 0, -1500, 20, 20, 0, 0>> IN
    [i \in 1..300 |-> cycle[(i % 7) + 1]]

Blocks ==
  UNION { [1..n -> SampleVals] : n \in 0..MaxBlockLen } \cup {ExampleBlock}

Max(a, b) == IF a >= b THEN a ELSE b

Min(a, b) == IF a <= b THEN a ELSE b

\* Math.round(n / d) for n >= 0, d > 0
Round(n, d) == (2 * n + d) \div (2 * d)

RECURSIVE SumSq(_)
\* the sum of v * v over the samples of the block (summed by halves)
SumSq(b) ==
  IF b = <<>> THEN 0
  ELSE IF Len(b) = 1 THEN b[1] * b[1]
  ELSE LET h == Len(b) \div 2 IN
         SumSq(SubSeq(b, 1, h)) + SumSq(SubSeq(b, h + 1, Len(b)))

\* rms >= gateThresh, with rms = sqrt(sum / length)
Loud(b, thresh) == thresh <= 0 \/ SumSq(b) >= thresh * thresh * Len(b)

\* A faulty gate that counts down without looking at the counter.
GateStepUnguarded(loud, hang, target) == IF loud THEN target ELSE hang - 1

\* the gate: the value of gateHang after a block
GateStep(loud, hang, target) ==
  IF loud THEN target ELSE IF hang > 0 THEN hang - 1 ELSE hang

\* A faulty gate that drops every block once the counter is 0.
GateDropLoud(loud, hang) == hang = 0

\* A faulty gate that drops nothing.
GateDropNever(loud, hang) == FALSE

\* the gate: the block is dropped
GateDrop(loud, hang) == ~loud /\ hang = 0

RECURSIVE SumRange(_, _, _)
\* buffer[lo] + ... + buffer[hi - 1], indices counted from 0
SumRange(b, lo, hi) == IF lo >= hi THEN 0 ELSE b[lo + 1] + SumRange(b, lo + 1, hi)

\* A faulty length that rounds down.
NewLengthFloor(len, inR, outR) == Max(1, (len * outR) \div inR)

NewLength(len, inR, outR) == Max(1, Round(len * outR, inR))

\* nextOffsetBuffer of output index j (counted from 0)
NextOffset(j, inR, outR) == Round((j + 1) * inR, outR)

downsample(b, inR, outR) ==
  IF inR = outR THEN [i \in 1..Len(b) |-> <<b[i], 1>>]
  ELSE [k \in 1..NewLength(Len(b), inR, outR) |->
          LET lo == IF k = 1 THEN 0 ELSE NextOffset(k - 2, inR, outR)
              hi == Min(NextOffset(k - 1, inR, outR), Len(b))
              count == Max(hi - lo, 0)
          IN IF count = 0 THEN <<0, 1>> ELSE <<SumRange(b, lo, hi), count>>]

\* The Int16 that setInt16 stores for the sample n / (d * Scale): clamp to
\* [-1, 1], scale by 0x8000 or 0x7fff, truncate toward zero.
ToInt16(n, d) ==
  LET D == d * Scale IN
    IF n <= -D THEN -32768
    ELSE IF n >= D THEN 32767
    ELSE IF n < 0 THEN -((-n * 32768) \div D)
    ELSE (n * 32767) \div D

\* the two bytes of an Int16, little-endian
BytesLE(x) == LET u == x % 65536 IN <<u % 256, u \div 256>>

\* the bytes of the buffer: sample i (from 1) is at bytes 2i - 1 and 2i
floatToInt16(f) ==
  [k \in 1..(2 * Len(f)) |->
     LET x == f[(k + 1) \div 2] IN BytesLE(ToInt16(x[1], x[2]))[2 - (k % 2)]]

\* The frame process() posts for block b, <<>> when it posts none.
Posted(b, loud, hang, inR, outR) ==
  IF GateDrop(loud, hang) THEN <<>>
  ELSE floatToInt16(downsample(b, inR, outR))

\* constructor(options), with sampleRate the rate of the audio context
constructor ==
  /\ inRate \in InRates
  /\ \E o \in GateOpts :
       /\ outRate = (IF o.targetSampleRate # 0 THEN o.targetSampleRate ELSE TargetRate)
       /\ gateThresh = (IF o.hasThresh THEN o.gateThresh ELSE DefaultThresh)
       /\ gateHangTarget = (IF o.hasHang THEN o.gateHang ELSE DefaultHang)
  /\ gateHang = 0
  /\ quietRun = -1 /\ lastIn = <<>> /\ lastOut = <<>>

\* process(inputs) with inputs[0][0] = b; an absent or empty input is <<>>.
process(b) ==
  /\ lastIn' = b
  /\ IF b = <<>>
       THEN /\ lastOut' = <<>>
            /\ UNCHANGED <<gateHang, quietRun>>
       ELSE LET loud == Loud(b, gateThresh)
                hang == GateStep(loud, gateHang, gateHangTarget)
            IN /\ gateHang' = hang
               /\ lastOut' = Posted(b, loud, hang, inRate, outRate)
               /\ quietRun' = IF loud THEN 0
                              ELSE IF quietRun < 0 THEN quietRun
                              ELSE Min(quietRun + 1, QuietCap)
  /\ UNCHANGED <<inRate, outRate, gateThresh, gateHangTarget>>
  /\ UNCHANGED sessVars

GateNext == \E b \in Blocks : process(b)

GateInit == SessInit /\ constructor

GateSpec == GateInit /\ [][GateNext]_vars

\* ================================================================= claims
IsPcm(x) == x[1] = "pcm"

\* the frames among the messages a socket was sent, in order
PcmOf(log) == LET sel == SelectSeq(log, IsPcm) IN [i \in 1..Len(sel) |-> sel[i][2]]

WasOpen(d) == d[2]

\* the frames that were delivered while the socket was open, in order
OpenFrames(dl) == LET sel == SelectSeq(dl, WasOpen) IN [i \in 1..Len(sel) |-> sel[i][1]]

Count(log, x) == Cardinality({i \in 1..Len(log) : log[i] = x})

IsFinalMsg(m) == (m.type = "result" /\ m.final) \/ m.type = "final"

IsPartialMsg(m) == m.type = "result" /\ ~m.final

\* the text a final message carries
FinalTextOf(m) == IF m.type = "result" THEN Or(m.text, m.partial) ELSE m.text

\* the texts of the final messages of a log, in order
FinalTexts(log) ==
  LET sel == SelectSeq(log, IsFinalMsg) IN [i \in 1..Len(sel) |-> FinalTextOf(sel[i])]

RECURSIVE JoinSp(_)
\* the texts joined by single spaces
JoinSp(ts) ==
  IF ts = <<>> THEN <<>>
  ELSE IF Len(ts) = 1 THEN ts[1]
  ELSE ts[1] \o <<SP>> \o JoinSp(Tail(ts))

RECURSIVE DropLeadingEmpty(_)
DropLeadingEmpty(ts) ==
  IF ts = <<>> THEN <<>>
  ELSE IF Head(ts) = <<>> THEN DropLeadingEmpty(Tail(ts)) ELSE ts

RECURSIVE PendingPartial(_)
\* the text of the last partial result after the most recent final message
PendingPartial(log) ==
  IF log = <<>> THEN <<>>
  ELSE LET m == log[Len(log)] IN
         IF IsFinalMsg(m) THEN <<>>
         ELSE IF IsPartialMsg(m) THEN m.partial
         ELSE PendingPartial(SubSeq(log, 1, Len(log) - 1))

\* C1 (GateSpec): after a loud block, the loud block and each of the first
\* gateHangTarget quiet blocks that follow it are posted, and the quiet block
\* number gateHangTarget + 1 is the first one that is not.  quietRun counts the
\* quiet blocks since the last loud one, the block just processed included.
C1_HangoverExhaustion ==
  (lastIn # <<>> /\ quietRun >= 0 /\ quietRun < QuietCap /\ gateHangTarget >= 0)
    => ((lastOut # <<>>) <=> (quietRun <= gateHangTarget))

\* C2, as claimed: finalText is the texts of all final messages received
\* since start() joined by single spaces, and partial is the text of the last
\* partial result received after the most recent final message.
C2_JoinAllFinals ==
  /\ finalText = JoinSp(FinalTexts(inbox))
  /\ partial = PendingPartial(inbox)

\* C2, amended: finalText is the texts of the final messages received since
\* start(), from the first non-empty one on, joined by single spaces (final
\* messages with an empty text that arrive while finalText is empty add
\* nothing, not even a separator); partial is the text of the last partial
\* result received after the most recent final message, or empty.
C2_Reconciliation ==
  /\ finalText = JoinSp(DropLeadingEmpty(FinalTexts(inbox)))
  /\ partial = PendingPartial(inbox)

\* C2 witness: a partial result, then final "abc", then final "d".
C2_Witness ==
  /\ Len(inbox) = 3
  /\ IsPartialMsg(inbox[1]) /\ inbox[1].partial = <<"ab">>
  /\ inbox[2].type = "result" /\ inbox[2].final /\ inbox[2].text = <<"abc">>
  /\ inbox[3].type = "final" /\ inbox[3].text = <<"d">>
  /\ finalText = <<"abc", SP, "d">>
  /\ partial = <<>>

\* C3: at most one 'final' control message is sent on a session's connection.
C3_OneFinalPerSession == \A s \in Sessions : Count(sent[s], FinalMsg) <= 1

\* the values lastError gets from a connection error event or from a server
\* 'error' message
SessionErrors ==
  {WsErrorText} \cup {Or(m.message, ServerErrorText) : m \in Inbound}

\* C4: when a connection that close() was not called on closes (no later
\* session started, the earlier ones over), recording ends, and lastError
\* becomes the closure error if it was unset at the moment of closure and is
\* left as it was if a connection error event or a server 'error' message had
\* set it (a failed connection has its error event, which sets the connection
\* error, just before its close event).
C4_UnsolicitedClosure ==
  [][\A s \in Sessions :
       ( /\ wsState[s] # "closed" /\ wsState'[s] = "closed"
         /\ ~closeRequested[s]
         /\ \A t \in Sessions :
              /\ t > s => pc[t] = "idle"
              /\ t < s => pc[t] = "failed" \/ wsState[t] = "closed" )
         => /\ ~recording'
            /\ error = <<>> =>
                 error' \in {WsErrorText, ClosedText(CloseNormal),
                             ClosedText(CloseFail)}
            /\ error \in SessionErrors => error' \in {error, WsErrorText}]_vars

\* C5: at most one session whose connection has not closed holds a live
\* capture stream, and at most one connection is open or opening.
C5_ExclusiveOwnership ==
  /\ Cardinality({s \in Sessions :
                    stream[s] = "live" /\ wsState[s] # "closed"}) <= 1
  /\ Cardinality({s \in Sessions : wsState[s] \in {"connecting", "open"}}) <= 1

\* C6: once stop() was called and start() was not called again, the session
\* is not streaming (recording is false).
C6_NoStreamingAfterStop == stopRequested => ~recording

\* C7: no 'ping' is sent on a connection after the 'final' that stop() sent.
C7_NoPingAfterStop ==
  \A s \in Sessions : \A i, j \in 1..Len(sent[s]) :
    (i < j /\ sent[s][i] = FinalMsg) => sent[s][j] # PingMsg

\* C8: on every connection, the frames sent are exactly the frames delivered
\* while the connection was open, unmodified and in the order of delivery,
\* which is the order of production; a frame delivered while the connection
\* was not open is never sent.
C8_FrameForwarding ==
  \A s \in Sessions :
    /\ PcmOf(sent[s]) = OpenFrames(delivered[s])
    /\ \A i, j \in 1..Len(PcmOf(sent[s])) :
         i < j => PcmOf(sent[s])[i] < PcmOf(sent[s])[j]

\* C8 witness: two frames were forwarded on a connection and a later one was
\* dropped because the connection was no longer open.
C8_Witness ==
  \E s \in Sessions :
    /\ Len(PcmOf(sent[s])) = 2
    /\ Len(delivered[s]) = 3
    /\ ~delivered[s][3][2]

\* C9: a connection that has not opened was sent nothing; an open connection
\* was sent the init message; the init message is the first message sent on
\* a connection and is sent only once.
C9_Negotiation ==
  \A s \in Sessions :
    /\ wsState[s] \in {"none", "connecting"} => sent[s] = <<>>
    /\ wsState[s] = "open" => sent[s] # <<>>
    /\ sent[s] # <<>> =>
         /\ sent[s][1] = <<"init", "pcm", TargetRate>>
         /\ \A i \in 2..Len(sent[s]) : sent[s][i][1] # "init"

\* C9 witness: a connection was sent init, then a frame, a ping and 'final'.
C9_Witness ==
  \E s \in Sessions :
    /\ Len(sent[s]) = 4
    /\ Count(sent[s], PingMsg) = 1
    /\ Count(sent[s], FinalMsg) = 1
    /\ Len(PcmOf(sent[s])) = 1

\* C10: handling an inbound 'error' message sets lastError and changes
\* nothing else of the session.
C10_ErrorNonFatal ==
  [][(Len(inbox') = Len(inbox) + 1 /\ inbox'[Len(inbox')].type = "error")
       => /\ error' = Or(inbox'[Len(inbox')].message, ServerErrorText)
          /\ error' # <<>>
          /\ UNCHANGED <<recording, partial, finalText, wsRef, streamRef,
                         audioCtxRef, srcRef, workletRef, pc, graph,
                         capturedError, wsState, ping, stream, ctx, node,
                         port, timers, sent, closeRequested, delivered>>]_vars

\* C10 witness: an 'error' message was handled while streaming with a partial
\* text shown; the session is still streaming, the text is still shown and a
\* frame was forwarded.
C10_Witness ==
  \E s \in Sessions :
    /\ Len(inbox) = 2 /\ inbox[2].type = "error"
    /\ error = <<"boom">>
    /\ partial = <<"ab">>
    /\ recording /\ wsState[s] = "open" /\ ping[s]
    /\ Len(PcmOf(sent[s])) = 1

\* a payload that JSON.parse rejects, or a JSON value of no recognised type
IsMalformed(m) == m.type \in {"other", "unparsable"}

\* C11: handling an inbound payload that does not parse, or that parses to a
\* value of no recognised type, changes nothing of the session (the texts,
\* the error, recording, every connection) and sends nothing.
C11_MalformedIgnored ==
  [][(Len(inbox') = Len(inbox) + 1 /\ IsMalformed(inbox'[Len(inbox')]))
       => UNCHANGED <<recording, partial, finalText, error, wsRef, streamRef,
                      audioCtxRef, srcRef, workletRef, pc, graph,
                      capturedError, wsState, ping, stream, ctx, node, port,
                      timers, sent, closeRequested, delivered>>]_vars

\* C11 witness: a final result, a partial result and an 'error' message were
\* handled and then a malformed payload; the texts and the error are there
\* and the session is still streaming.
C11_Witness ==
  \E s \in Sessions :
    /\ Len(inbox) = 4 /\ IsMalformed(inbox[4])
    /\ inbox[3].type = "error"
    /\ partial = <<"ab">> /\ finalText = <<"abc">> /\ error = <<"boom">>
    /\ recording /\ wsState[s] = "open" /\ ping[s]
    /\ sent[s] = <<InitMsg>>

\* C12: when getUserMedia fails, the call of start() is over for good with
\* `error` set to the message of the failure (to the microphone text when the
\* failure has no message): the step that fails leaves recording false or
\* as it was, and a failed call never has a WebSocket, a keepalive interval,
\* a stream or an audio graph, is never referred to by wsRef or streamRef,
\* and nothing is ever sent for it.
C12_AcquireFailure ==
  /\ [](\A s \in Sessions :
          pc[s] = "failed" =>
            /\ wsState[s] = "none" /\ ~closeRequested[s]
            /\ ~ping[s]
            /\ sent[s] = <<>>
            /\ stream[s] = "none" /\ ctx[s] = "none" /\ graph[s] = "none"
            /\ ~node[s] /\ port[s] = <<>> /\ delivered[s] = <<>>
            /\ wsRef # s /\ streamRef # s)
  /\ [][\A s \in Sessions :
          /\ pc[s] = "failed" => pc'[s] = "failed"
          /\ (pc[s] = "acquiring" /\ pc'[s] = "failed") =>
               /\ error' # <<>>
               /\ error' \in (AcquireErrors \ {<<>>}) \cup {MicErrorText}
               /\ recording' = recording /\ timers' = timers
               /\ wsState' = wsState /\ ping' = ping /\ sent' = sent]_vars

\* C12 witness: the second start() failed with "Permission denied" after a
\* first session that streamed and was stopped; the message is shown and the
\* failed call has nothing.
C12_Witness ==
  /\ pc[2] = "failed" /\ error = <<"Permission denied">> /\ ~recording
  /\ wsState[2] = "none" /\ sent[2] = <<>> /\ ~ping[2]
  /\ wsState[1] = "closed" /\ Count(sent[1], FinalMsg) = 1

\* C13: a step that takes `error` from set to unset is a call of start(), and
\* every call of start() unsets it; every other step (connection events,
\* inbound messages, frame deliveries, timers, stop()) leaves a set `error`
\* set, possibly with another text.
C13_ErrorNeverCleared ==
  [][/\ (error # <<>> /\ error' = <<>>) => nStarted' = nStarted + 1
     /\ nStarted' = nStarted + 1 => error' = <<>>]_vars

\* C13 witness: a server 'error' message set `error`; a frame delivery,
\* stop(), its timer and the close event followed, and `error` is set (the
\* close event replaced the text).
C13_Witness ==
  /\ Len(inbox) = 1 /\ inbox[1].type = "error"
  /\ delivered[1] # <<>>
  /\ stopRequested /\ timers = 0 /\ wsState[1] = "closed"
  /\ error = ClosedText(CloseNoCode)

\* C14 (GateSpec): with a hang target H >= 0, gateHang is always between 0
\* and H, and processing a block leaves gateHang unchanged, decreases it by
\* exactly 1 (only from a positive value) or sets it to H.
C14_GateState ==
  /\ [](gateHangTarget >= 0 => (0 <= gateHang /\ gateHang <= gateHangTarget))
  /\ [][gateHangTarget >= 0 =>
          \/ gateHang' = gateHang
          \/ gateHang > 0 /\ gateHang' = gateHang - 1
          \/ gateHang' = gateHangTarget]_vars

\* C14 witness: with H = 2 a loud block set gateHang to 2 and the quiet block
\* after it took it to 1.
C14_Witness ==
  /\ gateHangTarget = 2 /\ gateHang = 1 /\ quietRun = 1
  /\ lastIn # <<>> /\ ~Loud(lastIn, gateThresh)

\* C15 (GateSpec): after a non-empty block whose RMS is at least gateThresh
\* was processed, gateHang is gateHangTarget, whatever it was before, and
\* one frame was posted, the encoding of the resampled block (which is not
\* empty).
C15_LoudPasses ==
  (lastIn # <<>> /\ Loud(lastIn, gateThresh))
    => /\ gateHang = gateHangTarget
       /\ lastOut # <<>>
       /\ lastOut = floatToInt16(downsample(lastIn, inRate, outRate))

\* C15 witness: with H = 0 a loud block of two samples was processed at
\* 16000 -> 16000; gateHang is H and a frame of four bytes was posted.
C15_Witness ==
  /\ gateHangTarget = 0 /\ gateHang = 0
  /\ Len(lastIn) = 2 /\ Loud(lastIn, gateThresh)
  /\ inRate = outRate /\ Len(lastOut) = 4

\* C16 (GateSpec): a non-empty block with RMS below gateThresh that is
\* processed while gateHang is 0 posts no frame and leaves gateHang 0; an
\* absent or empty block posts no frame and leaves gateHang as it was.
C16_QuietSuppressed ==
  [][/\ (lastIn' # <<>> /\ ~Loud(lastIn', gateThresh) /\ gateHang = 0)
          => (lastOut' = <<>> /\ gateHang' = 0)
     /\ lastIn' = <<>> => (lastOut' = <<>> /\ gateHang' = gateHang)]_vars

\* C16 witness: with H = 1, the second quiet block after a loud one was
\* processed with gateHang 0 and was not posted.
C16_Witness ==
  /\ gateHangTarget = 1 /\ quietRun = 2 /\ gateHang = 0
  /\ lastIn # <<>> /\ ~Loud(lastIn, gateThresh)
  /\ lastOut = <<>>

\* the mean of b[lo + 1], ..., b[lo + n] as a fraction of thousandths
MeanOf(b, lo, n) == <<SumRange(b, lo, lo + n), n>>

\* two fractions are the same number
SameFraction(x, y) == x[1] * y[2] = y[1] * x[2]

\* C17 (GateSpec): a posted frame of a block of L samples, when inRate is not
\* outRate, has 2 * max(1, round(L / r)) bytes with r = inRate / outRate and
\* the resampled block has max(1, round(L / r)) samples; at 48000 -> 16000
\* every output sample j whose three inputs 3j, 3j+1, 3j+2 exist is their
\* mean, and a block of 300 samples gives 100 samples, each such a mean.
C17_ResamplingLength ==
  (lastIn # <<>> /\ lastOut # <<>> /\ inRate # outRate) =>
    LET L == Len(lastIn)
        down == downsample(lastIn, inRate, outRate)
        n == Max(1, (2 * L * outRate + inRate) \div (2 * inRate))
    IN /\ Len(down) = n
       /\ Len(lastOut) = 2 * n
       /\ (inRate = 48000 /\ outRate = 16000) =>
            /\ \A j \in 0..(n - 1) :
                 3 * j + 3 <= L => SameFraction(down[j + 1], MeanOf(lastIn, 3 * j, 3))
            /\ L = 300 =>
                 /\ n = 100
                 /\ lastOut = floatToInt16([j \in 1..100 |-> MeanOf(lastIn, 3 * (j - 1), 3)])

\* C17 witness: the block of 300 samples was processed at 48000 -> 16000 and
\* a frame of 200 bytes was posted.
C17_Witness ==
  /\ inRate = 48000 /\ outRate = 16000
  /\ Len(lastIn) = 300 /\ Len(lastOut) = 200

\* C18: the timer of a stop() closes the connection that stop() was called
\* on and never the connection of a later start(): when start() was called
\* after the last stop(), a timer that fires does not call close() on the
\* connection of that newest call of start() and does not change its
\* readyState.
C18_TimerClosesStoppedSession ==
  [][(timers' = timers - 1 /\ ~stopRequested) =>
       /\ closeRequested'[nStarted] = closeRequested[nStarted]
       /\ wsState'[nStarted] = wsState[nStarted]]_vars

\* C19: a call of start() that is over (getUserMedia failed, or its
\* connection has closed, whoever closed it) holds no live capture stream and
\* no running audio context, and its keepalive interval is cleared.
C19_ClosedReleases ==
  \A s \in Sessions :
    (pc[s] = "failed" \/ wsState[s] = "closed") =>
      /\ stream[s] # "live"
      /\ ctx[s] # "running"
      /\ ~ping[s]

\* C20: when the connection that stop() was called on closes after the
\* timer of stop() called close() on it, no start() having been called
\* since, and `error` was unset until then, `error` is still unset after the
\* close event (unless the connection failed, which gives the connection
\* error or the closed text of a failure).
C20_CleanStopNoError ==
  [][\A s \in Sessions :
       ( /\ wsState[s] = "closing" /\ wsState'[s] = "closed"
         /\ closeRequested[s] /\ stopRequested /\ wsRef = s
         /\ error = <<>> )
         => error' \in {<<>>, WsErrorText, ClosedText(CloseFail)}]_vars

====
